---- MODULE Spec2Model ----
(***************************************************************************)
(* Model of worker.js: a Cloudflare Worker that routes requests under /go/ *)
(* to a redirect handler (302 for ordinary browsers, an interstitial HTML  *)
(* document with an escape script for in-app browsers) and every other     *)
(* request to the static-asset collaborator.                               *)
(*                                                                         *)
(* Text is modelled as a sequence of one-character strings, so that        *)
(* splitting, decoding, case folding, URL parsing and HTML embedding are   *)
(* computed character by character, as the code and the platform compute   *)
(* them.  The alphabet is printable ASCII without space, TAB, '#', '@',    *)
(* '[', ']', '.', '+': the inputs below never contain them, and the URL    *)
(* operators do not model what they trigger (credentials, IPv6 and IPv4    *)
(* hosts, dot segments, fragments, the file: scheme).                      *)
(***************************************************************************)
EXTENDS Integers, Sequences, FiniteSets, TLC

VARIABLES
    request,        \* the incoming request: [target, uaHeader]
    pc,             \* position of the fetch handler
    destinationUrl, \* handleRedirect's local destinationUrl (<<>> when unset)
    response,       \* the response the Worker returns
    assetsCalls,    \* the requests handed to env.ASSETS.fetch, in order
    assetsReply,    \* what env.ASSETS.fetch answered
    argUA,          \* identification string given to the classifiers
    inApp,          \* result of isInAppBrowser(argUA)
    platformOut,    \* result of getPlatform(argUA)
    document,       \* the interstitial's script constants
    navigatorUA,    \* navigator.userAgent of the client running the script
    clock,          \* client time in ms since the script was evaluated
    timers,         \* pending setTimeout callbacks
    navLog,         \* every assignment to window.location.href, in order
    loadAt,         \* time the load event fired, -1 before it
    attempts,       \* number of calls of attemptRedirect so far
    scriptPc,       \* "parsing", "running", or "unloaded" once a navigation replaced the document
    pendingNav      \* the navigation started and not yet settled

serverVars == <<request, pc, destinationUrl, response, assetsCalls, assetsReply>>
classifyVars == <<argUA, inApp, platformOut>>
scriptVars == <<document, navigatorUA, clock, timers, navLog, loadAt, attempts, scriptPc,
                pendingNav>>
vars == <<request, pc, destinationUrl, response, assetsCalls, assetsReply, argUA, inApp,
          platformOut, document, navigatorUA, clock, timers, navLog, loadAt, attempts,
          scriptPc, pendingNav>>

----------------------------------------------------------------------------
\* Bounds of the model.

\* Tokens concatenated after the prefix of a request target.
MaxParts == 2
\* Tokens concatenated into an identification string.
MaxUAParts == 2
\* Tokens concatenated into the destination of an interstitial.
MaxDestParts == 1
\* Latest client time the model follows, in ticks of TickMs.
MaxTicks == 8

----------------------------------------------------------------------------
\* JavaScript string primitives.

UpperLetters == <<"A", "B", "C", "D", "E", "F", "G", "H", "I", "J", "K", "L", "M", "N", "O",
        "P", "Q", "R", "S", "T", "U", "V", "W", "X", "Y", "Z">>
LowerLetters == <<"a", "b", "c", "d", "e", "f", "g", "h", "i", "j", "k", "l", "m", "n", "o",
        "p", "q", "r", "s", "t", "u", "v", "w", "x", "y", "z">>
Digits == <<"0", "1", "2", "3", "4", "5", "6", "7", "8", "9">>

Range(s) == {s[i] : i \in 1..Len(s)}

\* Index of the first occurrence of element c in s, 0 if none.
IndexIn(c, s) ==
    IF \E i \in 1..Len(s) : s[i] = c
    THEN CHOOSE i \in 1..Len(s) : s[i] = c /\ \A j \in 1..(i - 1) : s[j] # c
    ELSE 0

LowerOf == [c \in Range(UpperLetters) |-> LowerLetters[IndexIn(c, UpperLetters)]]

LowerChar(c) == IF c \in DOMAIN LowerOf THEN LowerOf[c] ELSE c

toLowerCase(s) == [i \in 1..Len(s) |-> LowerChar(s[i])]

MatchAt(s, sub, i) == i + Len(sub) - 1 <= Len(s) /\ SubSeq(s, i, i + Len(sub) - 1) = sub

includes(s, sub) == \E i \in 1..(Len(s) + 1) : MatchAt(s, sub, i)

startsWith(s, p) == MatchAt(s, p, 1)

\* First index >= from at which sub occurs in s, 0 if none.
indexOf(s, sub, from) ==
    LET hits == {i \in from..(Len(s) + 1) : MatchAt(s, sub, i)}
    IN  IF hits = {} THEN 0 ELSE CHOOSE i \in hits : \A j \in hits : i <= j

Drop(s, n) == SubSeq(s, n + 1, Len(s))

RECURSIVE split(_, _)
split(s, sep) ==
    LET i == indexOf(s, sep, 1)
    IN  IF i = 0 THEN <<s>>
        ELSE <<SubSeq(s, 1, i - 1)>> \o split(Drop(s, i + Len(sep) - 1), sep)

RECURSIVE Flatten(_)
Flatten(ss) == IF ss = <<>> THEN <<>> ELSE Head(ss) \o Flatten(Tail(ss))

\* Sequences of at most n elements of S.
SeqsUpTo(S, n) == UNION {[1..k -> S] : k \in 0..n}

----------------------------------------------------------------------------
\* Classification of the identification string.

inAppBrowsers == <<<<"i", "n", "s", "t", "a", "g", "r", "a", "m">>, <<"f", "b", "a", "n">>,
        <<"f", "b", "a", "v">>, <<"t", "w", "i", "t", "t", "e", "r">>, <<"l", "i", "n", "e",
        "/">>, <<"m", "i", "c", "r", "o", "m", "e", "s", "s", "e", "n", "g", "e", "r">>,
                   <<"k", "a", "k", "a", "o">>, <<"t", "e", "l", "e", "g", "r", "a", "m">>>>

isInAppBrowserNoFold(userAgent) ==
    \E k \in 1..Len(inAppBrowsers) : includes(userAgent, inAppBrowsers[k])

isInAppBrowser(userAgent) ==
    LET ua == toLowerCase(userAgent)
    IN  \E k \in 1..Len(inAppBrowsers) : includes(ua, inAppBrowsers[k])

getPlatformAndroidFirst(userAgent) ==
    LET ua == toLowerCase(userAgent)
    IN  IF includes(ua, <<"a", "n", "d", "r", "o", "i", "d">>) THEN "android"
        ELSE IF includes(ua, <<"i", "p", "h", "o", "n", "e">>) \/ includes(ua, <<"i", "p", "a",
                "d">>) THEN "ios"
        ELSE "unknown"

getPlatform(userAgent) ==
    LET ua == toLowerCase(userAgent)
    IN  IF includes(ua, <<"i", "p", "h", "o", "n", "e">>) \/ includes(ua, <<"i", "p", "a",
            "d">>) THEN "ios"
        ELSE IF includes(ua, <<"a", "n", "d", "r", "o", "i", "d">>) THEN "android"
        ELSE "unknown"

\* Identification strings: concatenations of product tokens as clients send them.
UATokens == {<<"I", "n", "s", "t", "a", "g", "r", "a", "m">>, <<"F", "B", "A", "N">>, <<"f",
        "b", "a", "v">>, <<"T", "W", "I", "T", "T", "E", "R">>, <<"L", "i", "n", "e", "/">>,
        <<"M", "i", "c", "r", "o", "M", "e", "s", "s", "e", "n", "g", "e", "r">>, <<"K", "A",
        "K", "A", "O">>,
             <<"T", "e", "l", "e", "g", "r", "a", "m">>, <<"i", "P", "h", "o", "n", "e">>,
                     <<"i", "P", "a", "d">>, <<"A", "n", "d", "r", "o", "i", "d">>, <<"M", "o",
                     "z", "i", "l", "l", "a">>, <<"L", "i", "n", "e">>}

UAStrings == {Flatten(p) : p \in SeqsUpTo(UATokens, MaxUAParts)}

----------------------------------------------------------------------------
\* Percent-encoding (the platform's decodeURIComponent, URL and URLSearchParams).

\* Printable ASCII, code points 32..126 in order ("<grave>" is the grave accent,
\* code point 96, which a string of this language cannot hold).
Ascii == <<" ", "!", "\"", "#", "$", "%", "&", "'", "(", ")", "*", "+", ",", "-", ".", "/",
        "0", "1", "2", "3", "4", "5", "6", "7", "8", "9", ":", ";", "<", "=", ">", "?", "@",
        "A", "B", "C", "D", "E", "F", "G", "H", "I", "J", "K", "L", "M", "N", "O", "P", "Q",
        "R", "S", "T", "U", "V", "W", "X", "Y", "Z", "[", "\\", "]", "^", "_", "<grave>", "a",
        "b", "c", "d", "e", "f", "g", "h", "i", "j", "k", "l", "m", "n", "o", "p", "q", "r",
        "s", "t", "u", "v", "w", "x", "y", "z", "{", "|", "}", "~">>
HexDigits == <<"0", "1", "2", "3", "4", "5", "6", "7", "8", "9", "A", "B", "C", "D", "E", "F">>

CharCode(c) == IndexIn(c, Ascii) + 31

\* The character of a decoded byte; bytes outside printable ASCII do not occur
\* in the inputs and are kept as one placeholder each.
ByteChar(code) ==
    IF code \in 32..126 THEN Ascii[code - 31] ELSE IF code < 128 THEN "<ctl>" ELSE "<U+FFFD>"

HexChars == Range(HexDigits) \cup Range(<<"a", "b", "c", "d", "e", "f">>)
IsHex(c) == c \in HexChars

HexVal(c) == IF IndexIn(c, HexDigits) # 0 THEN IndexIn(c, HexDigits) - 1
             ELSE IndexIn(c, <<"a", "b", "c", "d", "e", "f">>) + 9

PercentEncode(c) ==
    <<"%", HexDigits[(CharCode(c) \div 16) + 1], HexDigits[(CharCode(c) % 16) + 1]>>

EncodeWith(s, set) ==
    Flatten([i \in 1..Len(s) |-> IF s[i] \in set THEN PercentEncode(s[i]) ELSE <<s[i]>>])

\* Percent-decoding.  strict: a '%' not followed by two hex digits, or a byte
\* that is not valid UTF-8 (here: any lone byte >= 128), is an error, as in
\* decodeURIComponent; otherwise the '%' is kept and the byte becomes U+FFFD.
RECURSIVE PercentDecode(_, _)
PercentDecode(s, strict) ==
    IF s = <<>> THEN [ok |-> TRUE, value |-> <<>>]
    ELSE IF Head(s) # "%" THEN
        LET r == PercentDecode(Tail(s), strict)
        IN  IF r.ok THEN [ok |-> TRUE, value |-> <<Head(s)>> \o r.value] ELSE r
    ELSE IF Len(s) >= 3 /\ IsHex(s[2]) /\ IsHex(s[3]) THEN
        LET code == 16 * HexVal(s[2]) + HexVal(s[3])
            r == PercentDecode(Drop(s, 3), strict)
        IN  IF strict /\ code >= 128 THEN [ok |-> FALSE, value |-> <<>>]
            ELSE IF r.ok THEN [ok |-> TRUE, value |-> <<ByteChar(code)>> \o r.value] ELSE r
    ELSE IF strict THEN [ok |-> FALSE, value |-> <<>>]
    ELSE LET r == PercentDecode(Tail(s), strict)
         IN  [ok |-> TRUE, value |-> <<"%">> \o r.value]

\* decodeURIComponent: ok = FALSE stands for the URIError it throws.
decodeURIComponent(s) == PercentDecode(s, TRUE)

----------------------------------------------------------------------------
\* The URL parser and serializer of the platform (new URL, Response.redirect).

SpecialSchemes == {<<"h", "t", "t", "p">>, <<"h", "t", "t", "p", "s">>, <<"f", "t", "p">>,
        <<"w", "s">>, <<"w", "s", "s">>}

DefaultPort(scheme) ==
    IF scheme \in {<<"h", "t", "t", "p">>, <<"w", "s">>} THEN 80
    ELSE IF scheme \in {<<"h", "t", "t", "p", "s">>, <<"w", "s", "s">>} THEN 443
    ELSE IF scheme = <<"f", "t", "p">> THEN 21 ELSE -1

PathEncodeSet == {" ", "\"", "#", "<", ">", "?", "<grave>", "{", "}"}
QueryEncodeSet == {" ", "\"", "#", "<", ">"}
SpecialQueryEncodeSet == QueryEncodeSet \cup {"'"}
ForbiddenHostCodePoints == {" ", "#", "/", ":", "<", ">", "?", "@", "[", "\\", "]", "^", "|"}
ForbiddenDomainCodePoints == ForbiddenHostCodePoints \cup {"%", "<ctl>", "<U+FFFD>"}

AlphaChars == Range(UpperLetters) \cup Range(LowerLetters)
DigitChars == Range(Digits)
IsAlpha(c) == c \in AlphaChars
IsDigit(c) == c \in DigitChars
IsSchemeChar(c) == IsAlpha(c) \/ IsDigit(c) \/ c \in {"+", "-", "."}

\* Index of the ':' that ends the scheme, 0 when the input has no scheme.
SchemeEnd(input) ==
    LET k == IndexIn(":", input)
    IN  IF k >= 2 /\ IsAlpha(input[1]) /\ \A i \in 2..(k - 1) : IsSchemeChar(input[i])
        THEN k ELSE 0

\* Length of the longest prefix of s whose characters are all in set.
RECURSIVE PrefixLen(_, _)
PrefixLen(s, set) ==
    IF s = <<>> \/ Head(s) \notin set THEN 0 ELSE 1 + PrefixLen(Tail(s), set)

\* Length of the longest prefix of s that holds no element of stop.
RECURSIVE SpanUntil(_, _)
SpanUntil(s, stop) ==
    IF s = <<>> \/ Head(s) \in stop THEN 0 ELSE 1 + SpanUntil(Tail(s), stop)

RECURSIVE StrToNat(_)
StrToNat(ds) ==
    IF ds = <<>> THEN 0 ELSE 10 * StrToNat(SubSeq(ds, 1, Len(ds) - 1)) + HexVal(ds[Len(ds)])

RECURSIVE NatToStr(_)
NatToStr(n) ==
    IF n < 10 THEN <<Digits[n + 1]>> ELSE NatToStr(n \div 10) \o <<Digits[(n % 10) + 1]>>

URLFailure == [ok |-> FALSE, href |-> <<>>]

\* Path and query that follow the authority (or the scheme, when there is none).
SerializeTail(tail, special) ==
    LET q == IndexIn("?", tail)
        rawPath == IF q = 0 THEN tail ELSE SubSeq(tail, 1, q - 1)
        slashed == [i \in 1..Len(rawPath) |->
                       IF special /\ rawPath[i] = "\\" THEN "/" ELSE rawPath[i]]
        path == IF special /\ slashed = <<>> THEN <<"/">> ELSE EncodeWith(slashed, PathEncodeSet)
        query == IF q = 0 THEN <<>>
                 ELSE <<"?">> \o EncodeWith(Drop(tail, q),
                                   IF special THEN SpecialQueryEncodeSet ELSE QueryEncodeSet)
    IN  path \o query

\* A URL with an authority: rest is the input after the scheme's slashes.
ParseAuthority(scheme, special, rest) ==
    LET stop == IF special THEN {"/", "\\", "?"} ELSE {"/", "?"}
        n == SpanUntil(rest, stop)
        authority == SubSeq(rest, 1, n)
        colon == IndexIn(":", authority)
        rawHost == IF colon = 0 THEN authority ELSE SubSeq(authority, 1, colon - 1)
        rawPort == IF colon = 0 THEN <<>> ELSE Drop(authority, colon)
        host == IF special THEN toLowerCase(PercentDecode(rawHost, FALSE).value) ELSE rawHost
        badHost == IF special
                   THEN host = <<>> \/ Range(host) \cap ForbiddenDomainCodePoints # {}
                   ELSE (colon # 0 /\ host = <<>>)
                           \/ Range(host) \cap ForbiddenHostCodePoints # {}
        badPort == (\E i \in 1..Len(rawPort) : ~IsDigit(rawPort[i]))
                       \/ (Len(rawPort) > 5 /\ PrefixLen(rawPort, {"0"}) < Len(rawPort) - 5)
        port == IF rawPort = <<>> \/ badPort THEN -1 ELSE StrToNat(rawPort)
    IN  IF badHost \/ badPort \/ port > 65535 THEN URLFailure
        ELSE [ok |-> TRUE,
              href |-> scheme \o <<":", "/", "/">> \o host
                         \o (IF port = -1 \/ port = DefaultPort(scheme) THEN <<>>
                             ELSE <<":">> \o NatToStr(port))
                         \o SerializeTail(Drop(rest, n), special)]

\* new URL(input) without a base: ok = FALSE stands for the TypeError it throws,
\* href is the serialization of the parsed URL.
URLParse(input) ==
    LET k == SchemeEnd(input)
        scheme == toLowerCase(SubSeq(input, 1, k - 1))
        rest == Drop(input, k)
    IN  IF k = 0 THEN URLFailure
        ELSE IF scheme \in SpecialSchemes
            THEN ParseAuthority(scheme, TRUE, Drop(rest, PrefixLen(rest, {"/", "\\"})))
        ELSE IF startsWith(rest, <<"/", "/">>) THEN ParseAuthority(scheme, FALSE, Drop(rest, 2))
        ELSE IF startsWith(rest, <<"/">>) THEN
            [ok |-> TRUE, href |-> scheme \o <<":">> \o SerializeTail(rest, FALSE)]
        ELSE LET q == IndexIn("?", rest)
             IN  [ok |-> TRUE,
                  href |-> scheme \o <<":">>
                             \o (IF q = 0 THEN rest
                                 ELSE SubSeq(rest, 1, q - 1) \o <<"?">>
                                        \o EncodeWith(Drop(rest, q), QueryEncodeSet))]

----------------------------------------------------------------------------
\* The request.

\* new URL(request.url): the path and the query of the request target, as the
\* URL parser serializes them (request URLs are http(s) URLs).
RequestURL(target) ==
    LET q == IndexIn("?", target)
        whole == SerializeTail(target, TRUE)
        p == IndexIn("?", whole)
    IN  [pathname |-> IF q = 0 THEN whole ELSE SubSeq(whole, 1, p - 1),
         search |-> IF q = 0 THEN <<>> ELSE Drop(whole, p)]

\* One name=value pair of a query, form-decoded ('+' for a space is not
\* modelled: no input holds one).
FormPair(pair) ==
    LET e == IndexIn("=", pair)
    IN  [name |-> PercentDecode(IF e = 0 THEN pair ELSE SubSeq(pair, 1, e - 1), FALSE).value,
         value |-> PercentDecode(IF e = 0 THEN <<>> ELSE Drop(pair, e), FALSE).value]

\* url.searchParams.get(name): the first value of name; found = FALSE is null.
searchParamsGet(search, name) ==
    LET pairs == split(search, <<"&">>)
        hits == {i \in 1..Len(pairs) : pairs[i] # <<>> /\ FormPair(pairs[i]).name = name}
    IN  IF hits = {} THEN [found |-> FALSE, value |-> <<>>]
        ELSE [found |-> TRUE,
              value |-> FormPair(pairs[CHOOSE i \in hits : \A j \in hits : i <= j]).value]

\* request.headers.get('user-agent') || ''; the header is <<>> when absent,
\* <<value>> when present.
userAgentOf(req) == IF req.uaHeader = <<>> THEN <<>> ELSE req.uaHeader[1]

----------------------------------------------------------------------------
\* Responses.

NoResponse ==
    [status |-> 0, contentType |-> "", cacheControl |-> "", location |-> <<>>, body |-> <<>>]

TextResponse(message) ==
    [status |-> 400, contentType |-> "text/plain", cacheControl |-> "", location |-> <<>>,
     body |-> <<message>>]

MissingMessage ==
    "Missing destination URL. Use /go/https://example.com or /go/?url=https://example.com"
InvalidMessage == "Invalid destination URL"

\* Response.redirect(url, status): Location is the serialization of the parsed url.
ResponseRedirectVerbatim(url, status) ==
    [status |-> status, contentType |-> "", cacheControl |-> "", location |-> url,
     body |-> <<>>]

ResponseRedirect(url, status) ==
    [status |-> status, contentType |-> "", cacheControl |-> "",
     location |-> URLParse(url).href, body |-> <<>>]

\* JSON.stringify of a string.
JSONstringify(s) ==
    <<"\"">> \o Flatten([i \in 1..Len(s) |->
                      IF s[i] \in {"\"", "\\"} THEN <<"\\", s[i]>> ELSE <<s[i]>>]) \o <<"\"">>

\* The interstitial document.  The template's own text is kept as whole
\* pieces (one element each); what is interpolated is kept character by
\* character.
generateRedirectHTML(dest, platform) ==
    <<"<!DOCTYPE html>...<body>...", "<a href=", "\"">> \o dest
        \o <<"\"", " class=\"manual-link\">Continue Manually</a>", "<script>",
             "const destinationUrl = ">> \o JSONstringify(dest)
        \o <<";", "const platform = ", "\"", platform, "\"", ";",
             "function attemptRedirect() {...} ...", "</script>", "</body></html>">>

----------------------------------------------------------------------------
\* How the client reads the interstitial document.

\* The value of the href attribute of the manual link: what follows the
\* opening quote, up to the next double quote.  (Character references are
\* not decoded: no input holds a named reference.)
HrefAttribute(html) ==
    LET after == Drop(html, IndexIn("<a href=", html) + 1)
    IN  SubSeq(after, 1, SpanUntil(after, {"\""}))

\* An end tag of the script element starts at position i.
ScriptEndsAt(html, i) ==
    \/ html[i] = "</script>"
    \/ /\ i + 8 <= Len(html)
       /\ toLowerCase(SubSeq(html, i, i + 7)) = <<"<", "/", "s", "c", "r", "i", "p", "t">>
       /\ html[i + 8] \in {">", "/", " "}

\* The text of the script element: from the start tag to the first end tag.
ScriptElementText(html) ==
    LET start == IndexIn("<script>", html)
        ends == {i \in (start + 1)..Len(html) : ScriptEndsAt(html, i)}
        stop == CHOOSE i \in ends : \A j \in ends : i <= j
    IN  SubSeq(html, start + 1, stop - 1)

\* The characters of a string literal after its opening quote: ok = FALSE
\* when the text ends before the closing quote.
RECURSIVE StringLiteral(_)
StringLiteral(s) ==
    IF s = <<>> THEN [ok |-> FALSE, value |-> <<>>]
    ELSE IF Head(s) = "\"" THEN [ok |-> TRUE, value |-> <<>>]
    ELSE LET esc == Head(s) = "\\" /\ Len(s) >= 2
             r == StringLiteral(Drop(s, IF esc THEN 2 ELSE 1))
         IN  IF r.ok THEN [ok |-> TRUE, value |-> <<IF esc THEN s[2] ELSE s[1]>> \o r.value]
             ELSE r

\* The value the script's constant destinationUrl gets.
ScriptConstant(text) ==
    LET after == Drop(text, IndexIn("const destinationUrl = ", text))
    IN  IF after # <<>> /\ Head(after) = "\"" THEN StringLiteral(Tail(after))
        ELSE [ok |-> FALSE, value |-> <<>>]

\* The responses of env.ASSETS.fetch.
AssetResponses ==
    {[status |-> st, contentType |-> "asset", cacheControl |-> "", location |-> <<>>,
      body |-> <<"static asset">>] : st \in {200, 404}}

----------------------------------------------------------------------------
\* handleRedirect(request, url, userAgent): what it returns (or throws), with
\* the value of its local destinationUrl.

Outcome(threw, dest, resp) == [threw |-> threw, destinationUrl |-> dest, response |-> resp]

handleRedirect(url, userAgent) ==
    LET pathParts == split(url.pathname, <<"/", "g", "o", "/">>)
        fromPath == Len(pathParts) > 1 /\ pathParts[2] # <<>>
        decoded == decodeURIComponent(pathParts[2])
        param == searchParamsGet(url.search, <<"u", "r", "l">>)
        dest == IF fromPath THEN decoded.value ELSE param.value
    IN  IF fromPath /\ ~decoded.ok THEN Outcome(TRUE, <<>>, NoResponse)
        ELSE IF dest = <<>> THEN Outcome(FALSE, dest, TextResponse(MissingMessage))
        ELSE IF ~URLParse(dest).ok THEN Outcome(FALSE, dest, TextResponse(InvalidMessage))
        ELSE IF ~isInAppBrowser(userAgent) THEN Outcome(FALSE, dest, ResponseRedirect(dest, 302))
        ELSE Outcome(FALSE, dest,
                     [status |-> 200, contentType |-> "text/html;charset=UTF-8",
                      cacheControl |-> "no-cache, no-store, must-revalidate",
                      location |-> <<>>,
                      body |-> generateRedirectHTML(dest, getPlatform(userAgent))])

\* The routing test of fetch.
IsRedirectPathAnywhere(url) == includes(url.pathname, <<"/", "g", "o", "/">>)

IsRedirectPath(url) == startsWith(url.pathname, <<"/", "g", "o", "/">>)

\* fetch, redirect endpoint: the whole of handleRedirect.
FetchRedirect ==
    /\ pc = "received"
    /\ IsRedirectPath(RequestURL(request.target))
    /\ LET out == handleRedirect(RequestURL(request.target), userAgentOf(request))
       IN  /\ pc' = IF out.threw THEN "threw" ELSE "done"
           /\ destinationUrl' = out.destinationUrl
           /\ response' = out.response
    /\ UNCHANGED <<request, assetsCalls, assetsReply>>
    /\ UNCHANGED classifyVars /\ UNCHANGED scriptVars

\* fetch, everything else: the request goes to the static-asset collaborator.
FetchStatic ==
    /\ pc = "received"
    /\ ~IsRedirectPath(RequestURL(request.target))
    /\ assetsCalls' = Append(assetsCalls, request)
    /\ pc' = "assets"
    /\ UNCHANGED <<request, destinationUrl, response, assetsReply>>
    /\ UNCHANGED classifyVars /\ UNCHANGED scriptVars

\* The collaborator answers and fetch returns its response.
AssetsRespond ==
    /\ pc = "assets"
    /\ \E r \in AssetResponses : assetsReply' = r
    /\ response' = assetsReply'
    /\ pc' = "done"
    /\ UNCHANGED <<request, destinationUrl, assetsCalls>>
    /\ UNCHANGED classifyVars /\ UNCHANGED scriptVars

----------------------------------------------------------------------------
\* Requests.

TargetPrefixes == {<<"/", "g", "o", "/">>, <<"/", "g", "o", "/", "?", "u", "r", "l", "=">>,
        <<"/">>, <<"/", "g", "o">>, <<"/", "l", "i", "n", "k", "s", "/", "g", "o", "/">>}

TargetTokens == {<<"h", "t", "t", "p", "s", ":", "/", "/", "a">>, <<"h", "t", "t", "p", "s",
        ":", "/", "/", "a", "/", "p", "?", "u", "=", "1", "&", "v", "=", "2">>, <<"h", "t",
        "t", "p", "s", "%", "3", "A", "%", "2", "F", "%", "2", "F", "a", "%", "2", "F", "p",
        "%", "3", "F", "u", "%", "3", "D", "1">>, <<"%", "2", "2">>,
                 <<"%">>, <<"/", "g", "o", "/">>, <<"<", "/", "s", "c", "r", "i", "p", "t",
                         ">">>, <<"f", "t", "p", ":", "/", "/", "a">>, <<"H", "T", "T", "P",
                         ":", "/", "/", "A">>, <<"n", "o", "t", "a">>}

Targets == {p \o Flatten(t) : p \in TargetPrefixes, t \in SeqsUpTo(TargetTokens, MaxParts)}

\* A few identification headers for the many targets, a few targets for the
\* many identification headers.
FewUAHeaders == {<<>>, <<<<"M", "o", "z", "i", "l", "l", "a">>>>, <<<<"I", "n", "s", "t", "a",
        "g", "r", "a", "m", "A", "n", "d", "r", "o", "i", "d">>>>}
FewTargets == {<<"/", "g", "o", "/", "h", "t", "t", "p", "s", ":", "/", "/", "a", "/", "p">>,
        <<"/", "g", "o", "/", "?", "u", "r", "l", "=", "h", "t", "t", "p", "s", ":", "/", "/",
        "a", "/", "p">>}
UAHeaders == {<<>>} \cup {<<u>> : u \in UAStrings}

Requests ==
    [target : Targets, uaHeader : FewUAHeaders] \cup [target : FewTargets, uaHeader : UAHeaders]

IdleClassify == argUA = <<>> /\ inApp = "none" /\ platformOut = "none"

IdleScript ==
    /\ document = [destinationUrl |-> <<>>, platform |-> "none"]
    /\ navigatorUA = <<>>
    /\ clock = 0
    /\ timers = <<>>
    /\ navLog = <<>>
    /\ loadAt = -1
    /\ attempts = 0
    /\ scriptPc = "none"
    /\ pendingNav = <<>>

IdleServer ==
    /\ request = [target |-> <<>>, uaHeader |-> <<>>]
    /\ pc = "none"
    /\ destinationUrl = <<>>
    /\ response = NoResponse
    /\ assetsCalls = <<>>
    /\ assetsReply = NoResponse

Init ==
    /\ request \in Requests
    /\ pc = "received"
    /\ destinationUrl = <<>>
    /\ response = NoResponse
    /\ assetsCalls = <<>>
    /\ assetsReply = NoResponse
    /\ IdleClassify
    /\ IdleScript

Next == FetchRedirect \/ FetchStatic \/ AssetsRespond

Spec == Init /\ [][Next]_vars

----------------------------------------------------------------------------
\* Properties of the Worker (specification Spec).

\* The request as the claims describe it.
ReqPath == RequestURL(request.target).pathname
ReqUA == userAgentOf(request)
PathBeginsWithGo == LET p == ReqPath IN Len(p) >= 4 /\ SubSeq(p, 1, 4) = <<"/", "g", "o", "/">>
Remainder == Drop(ReqPath, 4)
Handled == pc \in {"done", "threw"}

\* s holds marker, compared without regard to case.
ContainsNoCase(s, marker) ==
    \E i \in 0..(Len(s) - Len(marker)) :
        \A j \in 1..Len(marker) : LowerChar(s[i + j]) = LowerChar(marker[j])

Markers == {<<"i", "n", "s", "t", "a", "g", "r", "a", "m">>, <<"f", "b", "a", "n">>, <<"f",
        "b", "a", "v">>, <<"t", "w", "i", "t", "t", "e", "r">>, <<"l", "i", "n", "e", "/">>,
        <<"m", "i", "c", "r", "o", "m", "e", "s", "s", "e", "n", "g", "e", "r">>, <<"k", "a",
        "k", "a", "o">>,
            <<"t", "e", "l", "e", "g", "r", "a", "m">>}

HasMarker(ua) == \E m \in Markers : ContainsNoCase(ua, m)

ValidDestination == destinationUrl # <<>> /\ URLParse(destinationUrl).ok

\* C1 as stated: every /go/ request gets a response and never an exception,
\* 400 text/plain exactly when the destination is missing or unparsable, and
\* 302 or 200 otherwise.
C1_AlwaysResponds ==
    (PathBeginsWithGo /\ Handled) =>
        /\ pc = "done"
        /\ response.status \in {400, 302, 200}
        /\ (response.status = 400) <=> ~ValidDestination
        /\ (response.status = 400) => response.contentType = "text/plain"

\* C2 as stated (for the remainders that percent-decode): a non-empty path
\* remainder, decoded, is the destination, whole; the url parameter is the
\* destination exactly when the remainder is empty.
C2_DestinationIsRemainder ==
    (PathBeginsWithGo /\ pc = "done") =>
        /\ (Remainder # <<>> /\ decodeURIComponent(Remainder).ok) =>
               destinationUrl = decodeURIComponent(Remainder).value
        /\ Remainder = <<>> =>
               destinationUrl = searchParamsGet(RequestURL(request.target).search, <<"u", "r",
                       "l">>).value
        /\ destinationUrl = <<>> =>
               (response.status = 400 /\ response.body = <<MissingMessage>>)

\* C3 as stated: a valid destination and a client that is not in-app give a
\* 302 whose Location equals the extracted destination string.
C3_LocationIsDestination ==
    (PathBeginsWithGo /\ pc = "done" /\ ValidDestination /\ ~HasMarker(ReqUA)) =>
        /\ response.status = 302
        /\ response.location = destinationUrl
        /\ response.body = <<>>

\* C3 amended: a valid destination and a client that is not in-app (an absent
\* header included) give a 302 with no document, whose Location is the
\* destination as the URL parser serializes it: the same URL, in normal form.
C3_LocationIsSerializedDestination ==
    (PathBeginsWithGo /\ pc = "done" /\ ValidDestination /\ ~HasMarker(ReqUA)) =>
        /\ response.status = 302
        /\ response.body = <<>>
        /\ response.location = URLParse(destinationUrl).href
        /\ URLParse(response.location) = [ok |-> TRUE, href |-> response.location]

C3_Witness ==
    /\ pc = "done"
    /\ response.status = 302
    /\ request.uaHeader = <<>>
    /\ destinationUrl = <<"H", "T", "T", "P", ":", "/", "/", "A">>
    /\ response.location = <<"h", "t", "t", "p", ":", "/", "/", "a", "/">>

\* C4 as stated: in the interstitial the href of the manual link holds exactly
\* the destination, the script constant holds exactly the destination, and
\* the script element ends where the template ends it.
C4_SafelyEmbedded ==
    (pc = "done" /\ response.status = 200) =>
        /\ HrefAttribute(response.body) = destinationUrl
        /\ ScriptConstant(ScriptElementText(response.body))
               = [ok |-> TRUE, value |-> destinationUrl]
        /\ ScriptElementText(response.body)[Len(ScriptElementText(response.body))]
               = "function attemptRedirect() {...} ..."

\* The destination a link in one of the two documented formats is written
\* for, and its query parameters.
LinkDestination ==
    IF startsWith(request.target, <<"/", "g", "o", "/", "?", "u", "r", "l",
            "=">>) THEN Drop(request.target, 9)
    ELSE Drop(request.target, 4)
ParametersOf(url) ==
    LET q == IndexIn("?", url)
        pairs == split(Drop(url, q), <<"&">>)
    IN  IF q = 0 THEN {} ELSE {pairs[i] : i \in 1..Len(pairs)} \ {<<>>}

\* C5 as stated: a link /go/<destination> or /go/?url=<destination> whose
\* destination is an absolute URL with query parameters redirects to a
\* destination that holds every one of them.
C5_ParametersPreserved ==
    (startsWith(request.target, <<"/", "g", "o", "/">>) /\ Handled /\ URLParse(LinkDestination).ok
         /\ ParametersOf(LinkDestination) # {}) =>
        /\ pc = "done"
        /\ response.status \in {302, 200}
        /\ \A p \in ParametersOf(LinkDestination) :
               /\ response.status = 302 => includes(response.location, p)
               /\ response.status = 200 =>
                      /\ includes(HrefAttribute(response.body), p)
                      /\ includes(ScriptConstant(ScriptElementText(response.body)).value, p)

C8_Routing ==
    IF pc = "received" THEN assetsCalls = <<>>
    ELSE IF PathBeginsWithGo THEN
        /\ Handled
        /\ assetsCalls = <<>>
        /\ assetsReply = NoResponse
    ELSE
        /\ pc \in {"assets", "done"}
        /\ assetsCalls = <<request>>
        /\ pc = "done" => (response = assetsReply /\ assetsReply \in AssetResponses)

C8_Witness ==
    /\ pc = "done"
    /\ assetsCalls = <<request>>
    /\ includes(ReqPath, <<"/", "g", "o", "/">>)
    /\ response.status = 404

----------------------------------------------------------------------------
\* The classifiers on their own: each is applied to every identification string.

CallIsInAppBrowser ==
    /\ inApp = "none"
    /\ inApp' = IF isInAppBrowser(argUA) THEN "true" ELSE "false"
    /\ UNCHANGED <<argUA, platformOut>>
    /\ UNCHANGED serverVars /\ UNCHANGED scriptVars

CallGetPlatform ==
    /\ platformOut = "none"
    /\ platformOut' = getPlatform(argUA)
    /\ UNCHANGED <<argUA, inApp>>
    /\ UNCHANGED serverVars /\ UNCHANGED scriptVars

InitClassify ==
    /\ argUA \in UAStrings
    /\ inApp = "none"
    /\ platformOut = "none"
    /\ IdleServer
    /\ IdleScript

NextClassify == CallIsInAppBrowser \/ CallGetPlatform

SpecClassify == InitClassify /\ [][NextClassify]_vars

HasIOSMarker(ua) == ContainsNoCase(ua, <<"i", "p", "h", "o", "n", "e">>) \/ ContainsNoCase(ua,
        <<"i", "p", "a", "d">>)
HasAndroidMarker(ua) == ContainsNoCase(ua, <<"a", "n", "d", "r", "o", "i", "d">>)

\* C7: getPlatform returns one of ios, android, unknown for every string: ios
\* whenever the string holds an iPhone or iPad marker (an Android marker or
\* not), android when it holds an Android marker and no iOS marker, unknown
\* otherwise, the empty string included.
C7_PlatformClassification ==
    platformOut # "none" =>
        /\ platformOut \in {"ios", "android", "unknown"}
        /\ HasIOSMarker(argUA) => platformOut = "ios"
        /\ (HasAndroidMarker(argUA) /\ ~HasIOSMarker(argUA)) => platformOut = "android"
        /\ (~HasAndroidMarker(argUA) /\ ~HasIOSMarker(argUA)) => platformOut = "unknown"
        /\ argUA = <<>> => platformOut = "unknown"

C7_Witness ==
    /\ platformOut = "ios"
    /\ HasAndroidMarker(argUA)
    /\ includes(argUA, <<"i", "P", "a", "d">>)

----------------------------------------------------------------------------
\* The script of the interstitial, run by the client.

FallbackDelayMs == 500
SecondAttemptDelayMs == 1000
\* The clock advances in steps that divide both delays.
TickMs == FallbackDelayMs \div 2

\* destinationUrl.replace(/https?:\/\//, ''): the first occurrence of
\* "http://" or "https://" is removed, wherever it is.
replaceHttpScheme(s) ==
    LET hits == {i \in 1..Len(s) : MatchAt(s, <<"h", "t", "t", "p", ":", "/", "/">>,
            i) \/ MatchAt(s, <<"h", "t", "t", "p", "s", ":", "/", "/">>, i)}
        i == CHOOSE h \in hits : \A j \in hits : h <= j
        n == IF MatchAt(s, <<"h", "t", "t", "p", "s", ":", "/", "/">>, i) THEN Len(<<"h", "t",
                "t", "p", "s", ":", "/", "/">>) ELSE Len(<<"h", "t", "t", "p", ":", "/", "/">>)
    IN  IF hits = {} THEN s ELSE SubSeq(s, 1, i - 1) \o Drop(s, i + n - 1)

\* attemptRedirect without its fallback timers.
attemptRedirectNoFallback(doc, nua) ==
    IF doc.platform = "android" THEN
        [href |-> <<"i", "n", "t", "e", "n", "t", ":", "/",
                "/">> \o replaceHttpScheme(doc.destinationUrl) \o <<"#", "I", "n", "t", "e",
                "n", "t", ";", "e", "n", "d">>,
         fallback |-> FALSE]
    ELSE IF doc.platform = "ios" THEN
        [href |-> (IF includes(nua, <<"C", "r", "i", "O", "S">>) THEN <<"g", "o", "o", "g",
                "l", "e", "c", "h", "r", "o", "m", "e", ":", "/", "/">>
                   ELSE IF includes(nua, <<"F", "x", "i", "O", "S">>) THEN <<"f", "i", "r",
                           "e", "f", "o", "x", ":", "/", "/">>
                   ELSE <<"x", "-", "s", "a", "f", "a", "r", "i", "-", "h", "t", "t", "p", "s",
                           ":", "/", "/">>) \o replaceHttpScheme(doc.destinationUrl),
         fallback |-> FALSE]
    ELSE [href |-> doc.destinationUrl, fallback |-> FALSE]

\* attemptRedirect(): the URL it assigns to window.location.href, and whether
\* it sets the fallback timer.
attemptRedirect(doc, nua) ==
    IF doc.platform = "android" THEN
        [href |-> <<"i", "n", "t", "e", "n", "t", ":", "/",
                "/">> \o replaceHttpScheme(doc.destinationUrl) \o <<"#", "I", "n", "t", "e",
                "n", "t", ";", "e", "n", "d">>,
         fallback |-> TRUE]
    ELSE IF doc.platform = "ios" THEN
        [href |-> (IF includes(nua, <<"C", "r", "i", "O", "S">>) THEN <<"g", "o", "o", "g",
                "l", "e", "c", "h", "r", "o", "m", "e", ":", "/", "/">>
                   ELSE IF includes(nua, <<"F", "x", "i", "O", "S">>) THEN <<"f", "i", "r",
                           "e", "f", "o", "x", ":", "/", "/">>
                   ELSE <<"x", "-", "s", "a", "f", "a", "r", "i", "-", "h", "t", "t", "p", "s",
                           ":", "/", "/">>) \o replaceHttpScheme(doc.destinationUrl),
         fallback |-> TRUE]
    ELSE [href |-> doc.destinationUrl, fallback |-> FALSE]

Navigation(href, n) == [href |-> href, at |-> clock, attempt |-> n]
FallbackTimer(n) == [due |-> clock + FallbackDelayMs, run |-> "fallback", attempt |-> n]

\* The timers that are due, and the one that runs next: the earliest due, the
\* first set among equals.
DueTimers == {i \in 1..Len(timers) : timers[i].due <= clock}
NextTimer ==
    CHOOSE i \in DueTimers :
        \A j \in DueTimers : timers[i].due < timers[j].due
                                \/ (timers[i].due = timers[j].due /\ i <= j)
Without(seq, i) == SubSeq(seq, 1, i - 1) \o Drop(seq, i)

\* The script element is evaluated: the load listener is registered and
\* attemptRedirect() is called.
EvaluateScript ==
    /\ scriptPc = "parsing"
    /\ LET a == attemptRedirect(document, navigatorUA)
       IN  /\ navLog' = Append(navLog, Navigation(a.href, 1))
           /\ pendingNav' = <<a.href>>
           /\ timers' = IF a.fallback THEN <<FallbackTimer(1)>> ELSE <<>>
    /\ attempts' = 1
    /\ scriptPc' = "running"
    /\ UNCHANGED <<document, navigatorUA, clock, loadAt>>
    /\ UNCHANGED serverVars /\ UNCHANGED classifyVars

\* The load event: the listener sets the timer of the second attempt.
LoadEvent ==
    /\ scriptPc = "running"
    /\ loadAt = -1
    /\ loadAt' = clock
    /\ timers' = Append(timers, [due |-> clock + SecondAttemptDelayMs, run |-> "attempt",
                                 attempt |-> 0])
    /\ UNCHANGED <<document, navigatorUA, clock, navLog, attempts, scriptPc, pendingNav>>
    /\ UNCHANGED serverVars /\ UNCHANGED classifyVars

\* A fallback timer runs: window.location.href = destinationUrl.
FallbackFires ==
    /\ scriptPc = "running"
    /\ DueTimers # {}
    /\ timers[NextTimer].run = "fallback"
    /\ navLog' = Append(navLog, Navigation(document.destinationUrl, timers[NextTimer].attempt))
    /\ pendingNav' = <<document.destinationUrl>>
    /\ timers' = Without(timers, NextTimer)
    /\ UNCHANGED <<document, navigatorUA, clock, loadAt, attempts, scriptPc>>
    /\ UNCHANGED serverVars /\ UNCHANGED classifyVars

\* The timer set by the load listener runs: attemptRedirect() again.
SecondAttemptFires ==
    /\ scriptPc = "running"
    /\ DueTimers # {}
    /\ timers[NextTimer].run = "attempt"
    /\ LET a == attemptRedirect(document, navigatorUA)
       IN  /\ navLog' = Append(navLog, Navigation(a.href, attempts + 1))
           /\ pendingNav' = <<a.href>>
           /\ timers' = Without(timers, NextTimer)
                          \o (IF a.fallback THEN <<FallbackTimer(attempts + 1)>> ELSE <<>>)
    /\ attempts' = attempts + 1
    /\ UNCHANGED <<document, navigatorUA, clock, loadAt, scriptPc>>
    /\ UNCHANGED serverVars /\ UNCHANGED classifyVars

\* Time passes, once every timer that is due has run.
Tick ==
    /\ scriptPc = "running"
    /\ DueTimers = {}
    /\ clock < MaxTicks * TickMs
    /\ clock' = clock + TickMs
    /\ UNCHANGED <<document, navigatorUA, timers, navLog, loadAt, attempts, scriptPc,
                   pendingNav>>
    /\ UNCHANGED serverVars /\ UNCHANGED classifyVars

\* The navigation that was started replaces the document: its timers and
\* listeners are gone.
NavigationCommits ==
    /\ scriptPc = "running"
    /\ pendingNav # <<>>
    /\ scriptPc' = "unloaded"
    /\ timers' = <<>>
    /\ pendingNav' = <<>>
    /\ UNCHANGED <<document, navigatorUA, clock, navLog, loadAt, attempts>>
    /\ UNCHANGED serverVars /\ UNCHANGED classifyVars

\* The navigation that was started leaves the document in place (it is
\* blocked, or handed to another application, or nothing handles its scheme).
NavigationLeavesDocument ==
    /\ scriptPc = "running"
    /\ pendingNav # <<>>
    /\ pendingNav' = <<>>
    /\ UNCHANGED <<document, navigatorUA, clock, timers, navLog, loadAt, attempts, scriptPc>>
    /\ UNCHANGED serverVars /\ UNCHANGED classifyVars

\* The interstitials the Worker serves: a destination that passed validation,
\* embedded so that the script runs, and an in-app identification string.
DestTokens == {<<"h", "t", "t", "p", "s", ":", "/", "/", "a">>, <<"h", "t", "t", "p", "s", ":",
        "/", "/", "a", "/", "p", "?", "u", "=", "1", "&", "v", "=", "2">>, <<"f", "t", "p",
        ":", "/", "/", "a">>, <<"H", "T", "T", "P", ":", "/", "/", "A">>, <<"h", "t", "t", "p",
        ":", "/", "/", "b", "/", "h", "t", "t", "p", ":", "/", "/", "c">>,
               <<"m", "a", "i", "l", "t", "o", ":", "a">>, <<"%", "2", "2">>}

ScriptDests ==
    {d \in {Flatten(t) : t \in SeqsUpTo(DestTokens, MaxDestParts)} :
        /\ d # <<>>
        /\ URLParse(d).ok
        /\ ScriptConstant(ScriptElementText(generateRedirectHTML(d, "unknown")))
               = [ok |-> TRUE, value |-> d]}

ScriptUAs ==
    {u \in {<<"I", "n", "s", "t", "a", "g", "r", "a", "m", "A", "n", "d", "r", "o", "i", "d">>,
            <<"I", "n", "s", "t", "a", "g", "r", "a", "m", "i", "P", "h", "o", "n", "e">>,
            <<"F", "B", "A", "N", "i", "P", "h", "o", "n", "e", "C", "r", "i", "O", "S">>,
            <<"T", "e", "l", "e", "g", "r", "a", "m", "i", "P", "a", "d", "F", "x", "i", "O", "S">>,
            <<"T", "W", "I", "T", "T", "E", "R">>, <<"K", "A", "K", "A", "O", "A", "n", "d",
                    "r", "o", "i", "d", "i", "P", "a", "d">>} : isInAppBrowser(u)}

InitScript ==
    /\ \E d \in ScriptDests, u \in ScriptUAs :
           /\ document = [destinationUrl |-> d, platform |-> getPlatform(u)]
           /\ navigatorUA = u
    /\ clock = 0
    /\ timers = <<>>
    /\ navLog = <<>>
    /\ loadAt = -1
    /\ attempts = 0
    /\ scriptPc = "parsing"
    /\ pendingNav = <<>>
    /\ IdleServer
    /\ IdleClassify

NextScript ==
    \/ EvaluateScript
    \/ LoadEvent
    \/ FallbackFires
    \/ SecondAttemptFires
    \/ Tick
    \/ NavigationCommits
    \/ NavigationLeavesDocument

SpecScript == InitScript /\ [][NextScript]_vars

----------------------------------------------------------------------------
\* Properties of the script (specification SpecScript).

Dest == document.destinationUrl
Escaping == document.platform \in {"android", "ios"}

EscapePrefix ==
    IF document.platform = "android" THEN <<"i", "n", "t", "e", "n", "t", ":", "/", "/">>
    ELSE IF includes(navigatorUA, <<"C", "r", "i", "O", "S">>) THEN <<"g", "o", "o", "g", "l",
            "e", "c", "h", "r", "o", "m", "e", ":", "/", "/">>
    ELSE IF includes(navigatorUA, <<"F", "x", "i", "O", "S">>) THEN <<"f", "i", "r", "e", "f",
            "o", "x", ":", "/", "/">>
    ELSE <<"x", "-", "s", "a", "f", "a", "r", "i", "-", "h", "t", "t", "p", "s", ":", "/", "/">>
EscapeSuffix == IF document.platform = "android" THEN <<"#", "I", "n", "t", "e", "n", "t", ";",
        "e", "n", "d">> ELSE <<>>

\* Nothing more will run: the document was replaced, or it was left in place
\* and the load event and every timer have run.
RanToEnd == scriptPc = "running" /\ loadAt >= 0 /\ timers = <<>>
ScriptOver == scriptPc = "unloaded" \/ RanToEnd

\* The navigations of a whole run, by attempt and time.
IsEscapeNav(e, n, t) ==
    e.attempt = n /\ e.at = t /\ e.href # Dest /\ startsWith(e.href, EscapePrefix)
IsPlainNav(e, n, t) == e.attempt = n /\ e.at = t /\ e.href = Dest

\* navLog[i], when the log is that long, is as the whole run has it.
NavAsExpected(i) ==
    IF Escaping THEN
        CASE i = 1 -> IsEscapeNav(navLog[1], 1, 0)
          [] i = 2 -> IsPlainNav(navLog[2], 1, 500)
          [] i = 3 -> loadAt >= 0 /\ IsEscapeNav(navLog[3], 2, loadAt + 1000)
          [] i = 4 -> IsPlainNav(navLog[4], 2, navLog[3].at + 500)
          [] OTHER -> FALSE
    ELSE
        CASE i = 1 -> IsPlainNav(navLog[1], 1, 0)
          [] i = 2 -> loadAt >= 0 /\ IsPlainNav(navLog[2], 2, loadAt + 1000)
          [] OTHER -> FALSE

\* C9 as stated: in every execution the escape attempt runs exactly twice, and
\* the run ends with the navigation to the plain destination (four
\* navigations on android and ios, two on unknown).
C9_AlwaysTwoAttempts ==
    ScriptOver =>
        /\ attempts = 2
        /\ Len(navLog) = IF Escaping THEN 4 ELSE 2
        /\ navLog[Len(navLog)].href = Dest

\* C9 amended: the attempts run in the stated order and at the stated times,
\* at most twice, and exactly twice in every execution in which no navigation
\* replaces the document: the first when the script is evaluated, the second
\* 1000ms after the load event; on android and ios each is the escape
\* navigation and, 500ms later, the plain one, the first attempt's fallback
\* before the second attempt, the plain destination last; on unknown each is
\* one plain navigation with no timer.
C9_TwoAttemptsWhileDocumentLives ==
    /\ attempts <= 2
    /\ scriptPc \in {"running", "unloaded"} => attempts >= 1
    /\ \A i \in 1..Len(navLog) : NavAsExpected(i)
    /\ \A i \in 1..Len(timers) : timers[i].run = "fallback" => Escaping
    /\ attempts = 2 => loadAt >= 0
    /\ RanToEnd =>
           /\ attempts = 2
           /\ Len(navLog) = IF Escaping THEN 4 ELSE 2
           /\ navLog[Len(navLog)].href = Dest

C9_Witness ==
    /\ RanToEnd
    /\ document.platform = "ios"
    /\ Len(navLog) = 4
    /\ navLog[2].at < navLog[3].at
    /\ loadAt > 0

\* The destination without its own leading "<scheme>://".
WithoutOwnScheme(url) ==
    IF MatchAt(url, <<":", "/", "/">>, SchemeEnd(url)) THEN Drop(url, SchemeEnd(url) + 2) ELSE url

\* C10 as stated: every escape URL the script navigates to is the platform
\* prefix, then the destination without its own scheme prefix and otherwise
\* unchanged, then '#Intent;end' on android.
C10_EscapeUrlForm ==
    Escaping =>
        \A i \in 1..Len(navLog) :
            i \in {1, 3} =>
                navLog[i].href = EscapePrefix \o WithoutOwnScheme(Dest) \o EscapeSuffix

====
